---- MODULE Spec2Model ----
(***************************************************************************)
(* flaresync: one reconciliation pass of main() against a Cloud Armor      *)
(* security policy, run repeatedly by the scheduler.                        *)
(*                                                                          *)
(* CIDR strings are modelled as positive naturals; the empty string (the   *)
(* zero value of a Go string) is 0.  A Go slice s[a:b] is SubSeq(s,a+1,b). *)
(***************************************************************************)
EXTENDS Integers, Sequences, FiniteSets, TLC

\* ------------------------------------------------------------------ bounds
\* longest published IPv4 list
MaxLen == 23
\* longest list the pre-existing managed rules were built from
MaxOldLen == 23
\* number of scheduled runs in one behaviour
MaxRuns == 2
\* number of changes other parties make to the policy in one behaviour
MaxExternal == 1

\* ------------------------------------------------------- program constants
\* GCP limit of networks per rule, the literal 10 of main()
BatchSize == 10

rule_description == "cloudflare - dont change"

Min(a, b) == IF a < b THEN a ELSE b
Max(a, b) == IF a > b THEN a ELSE b

\* ------------------------------------------------------------- Go slices
\* s[a:b] of a Go slice (a <= b <= len(s))
GoSlice(s, a, b) == SubSeq(s, a + 1, b)

\* reflect.DeepEqual on two []string
DeepEqual(s, t) == Len(s) = Len(t) /\ \A k \in 1..Len(s) : s[k] = t[k]

\* s[0:b] when b may exceed len(s): the elements past len(s) that the
\* backing array holds are zero values
GoSliceUpTo(s, b) == [k \in 1..b |-> IF k <= Len(s) THEN s[k] ELSE 0]

\* --------------------------------------------------------------- inputs
\* the published lists: variant "A" is 1..n, variant "B" the same networks
\* with the first two exchanged
List(v, n) ==
  [k \in 1..n |-> IF v = "B" /\ n >= 2 /\ k <= 2 THEN 3 - k ELSE k]

Variants == {"A", "B"}
Tags == {"", "v1"}
Markers == {"", "v1", "V1"}

\* the desired layout of a list: batch j (1-based) is rule j-1
NeededFor(n) == (n + 9) \div BatchSize
Batches(entries) ==
  [j \in 1..NeededFor(Len(entries)) |->
     GoSlice(entries, (j - 1) * BatchSize, Min(j * BatchSize, Len(entries)))]

\* ------------------------------------------------------------ the store
\* A rule of the policy.  hasConfig is FALSE for a rule whose matcher is an
\* expression (Match.Config is nil).
ManagedRule(p, c) ==
  [priority |-> p, description |-> rule_description, hasConfig |-> TRUE, cidrs |-> c]

\* the default rule every policy has: priority max int32, source range "*"
\* (written 1000 here)
DefaultRule ==
  [priority |-> 2147483647, description |-> "default rule", hasConfig |-> TRUE,
   cidrs |-> <<1000>>]

\* a rule somebody else created (its source range is written 2000)
UserRule(p, cfg) ==
  [priority |-> p, description |-> "user", hasConfig |-> cfg,
   cidrs |-> IF cfg THEN <<2000>> ELSE <<>>]

HasPriority(rules, p) == \E k \in 1..Len(rules) : rules[k].priority = p

\* the store keeps and returns the rules in ascending priority order
InsertRule(rules, rule) ==
  LET before == SelectSeq(rules, LAMBDA x : x.priority < rule.priority)
      after  == SelectSeq(rules, LAMBDA x : x.priority > rule.priority)
  IN  before \o <<rule>> \o after

ReplaceRule(rules, p, rule) ==
  [k \in 1..Len(rules) |-> IF rules[k].priority = p THEN rule ELSE rules[k]]

DeleteRule(rules, p) == SelectSeq(rules, LAMBDA x : x.priority # p)

\* the policies a run may find: Batches of an older list as managed rules at
\* priorities off .. off+k-1, a foreign rule at priority 0 when off = 1
InitialRules(oldLen, off, cfg) ==
  LET old == Batches(List("A", oldLen))
      managed == [j \in 1..Len(old) |-> ManagedRule(j - 1 + off, old[j])]
  IN  (IF off = 1 THEN <<UserRule(0, cfg)>> ELSE <<>>) \o managed \o <<DefaultRule>>

Layouts == {<<0, TRUE>>, <<1, TRUE>>, <<1, FALSE>>}

\* -------------------------------------------------- cloudflareparser
\* the HTTP statuses the publisher answers with
Statuses == {200, 500}

\* a parser that hands back whatever the document holds
ParseCloudflareJSONUnchecked(resp) ==
  IF resp.neterr \/ resp.malformed
    THEN [etag |-> "", cidrs |-> <<>>, err |-> TRUE]
    ELSE [etag |-> resp.body.etag, cidrs |-> resp.body.cidrs, err |-> FALSE]

\* ParseCloudflareJSON: resp is the outcome of http.Get (neterr, status) and of
\* decoding the body (malformed, body); the result is <<etag, networks, err>>
\* as a record.  resp.status is not looked at.
ParseCloudflareJSON(resp) ==
  IF resp.neterr THEN [etag |-> "", cidrs |-> <<>>, err |-> TRUE]
  ELSE IF resp.malformed THEN [etag |-> "", cidrs |-> <<>>, err |-> TRUE]
  ELSE IF resp.body.etag = "" THEN [etag |-> "", cidrs |-> <<>>, err |-> TRUE]
  ELSE IF Len(resp.body.cidrs) = 0 THEN [etag |-> "", cidrs |-> <<>>, err |-> TRUE]
  ELSE [etag |-> resp.body.etag, cidrs |-> resp.body.cidrs, err |-> FALSE]

\* ------------------------------------------------------------ package gcp
\* Each wrapper returns the store's answer; apiOk = FALSE is a call the
\* store rejects or that fails in transit.  The store itself rejects an
\* add at a priority that is taken and a patch or remove at one that is not.
AddErr(rules, rule, apiOk) == ~apiOk \/ HasPriority(rules, rule.priority)
AddCloudArmorRule(rules, rule, apiOk) ==
  IF AddErr(rules, rule, apiOk) THEN rules ELSE InsertRule(rules, rule)

PatchErr(rules, prio, apiOk) == ~apiOk \/ ~HasPriority(rules, prio)
PatchCloudArmorRule(rules, prio, rule, apiOk) ==
  IF PatchErr(rules, prio, apiOk) THEN rules ELSE ReplaceRule(rules, prio, rule)

RemoveErr(rules, prio, apiOk) == ~apiOk \/ ~HasPriority(rules, prio)
RemoveCloudArmorRule(rules, prio, apiOk) ==
  IF RemoveErr(rules, prio, apiOk) THEN rules ELSE DeleteRule(rules, prio)

\* client.AddRule / PatchRule / RemoveRule / Patch hand back an operation
\* that is running in the store; op.Wait(ctx) returns when it has finished.
\* n is the number of operations running.
IssueOp(n) == n + 1
\* a wrapper that returns the operation's start instead of waiting for it
WaitOpSkipped(n) == n
WaitOp(n) == n - 1

\* the policy patch is rejected when its fingerprint is not the store's
PatchPolicyErr(fp, fingerprint, apiOk) == ~apiOk \/ fingerprint # fp

\* ------------------------------------------------------ main: the planner
\* a gate that compares the ETags without regard to letter case
SameETagFolded(ca_desc, cf) ==
  LET Fold(t) == IF t = "V1" THEN "v1" ELSE t
  IN  Fold(ca_desc) = Fold(cf)

\* the change gate: exit without errors when the ETags are equal
SameETag(ca_desc, cf) == ca_desc = cf

\* the number of CF rules in the current policy
CountManaged(rules) ==
  Cardinality({k \in 1..Len(rules) : rules[k].description = rule_description})

\* a rule count that is one too many when the list fills its last rule
RulesNeededRoundedUp(len) == (len + BatchSize) \div BatchSize

\* the number of rules needed to store the networks
RulesNeeded(len) == (len + 9) \div BatchSize

\* a counter that runs one past the larger of the two numbers
RulesCounterOneMore(existing, needed) == Max(existing, needed) + 1

\* a counter that takes the smaller of the two numbers
RulesCounterMin(existing, needed) == Min(existing, needed)

RulesCounter(existing, needed) == Max(existing, needed)

\* a right index pointer that moves one position too far
RightPointerWide(left, len) ==
  IF left + BatchSize + 1 > len THEN len ELSE left + BatchSize + 1

\* the right index pointer: 10 positions to the right of l, or the end
RightPointer(left, len) ==
  IF left + BatchSize > len THEN len ELSE left + BatchSize

\* the right index pointer used on the existing rule
R2(right) == IF right = BatchSize THEN BatchSize ELSE right % BatchSize

\* "l += 10": the left pointer moved 10 positions to the right
NextLeftAdvanced(left) == left + BatchSize

\* "l = +10": the statement that follows every batch
NextLeft(left) == BatchSize

\* the rule main() forms for a batch
FormRule(prio, networks, left, right) ==
  ManagedRule(prio, GoSlice(networks, left, right))

\* ---------------------------------------------------------------- state
VARIABLES
  pub,                  \* the document the publisher serves: etag, cidrs
  storeDesc,            \* the policy's description in the store
  storeFp,              \* the policy's fingerprint in the store
  storeRules,           \* the policy's rules in the store
  pc,                   \* where main() is
  exitCode,
  cf_etag, cf_networks,
  policy,               \* the policy as main() read it
  ca_etag, ca_description,
  policy_rules_number, rulesNeeded, rulesCounter,
  l, r, i,
  calls,                \* the store calls of this run, in order
  compared,             \* the rules whose SrcIpRanges this run compared
  panicked,             \* the run stopped on a runtime panic
  run,                  \* number of runs started
  startDesc,            \* storeDesc when this run started
  startRules,           \* storeRules when this run started
  prevOpFailed,         \* the previous run stopped on a failed rule call
  prevStamped,          \* an earlier run ended with the marker written
  httpStatus,           \* the status of the publisher's answer (0: none)
  inflight,             \* store operations started and not yet finished
  extMods,              \* number of changes made to the policy by others
  extModified           \* the policy was changed by others during this run

vars ==
  <<pub, storeDesc, storeFp, storeRules, pc, exitCode, cf_etag, cf_networks,
    policy, ca_etag, ca_description, policy_rules_number, rulesNeeded,
    rulesCounter, l, r, i, calls, compared, panicked, run, startDesc,
    startRules, prevOpFailed, prevStamped, httpStatus, inflight, extMods,
    extModified>>

storeVars == <<storeDesc, storeFp, storeRules>>
planVars == <<policy_rules_number, rulesNeeded, rulesCounter>>
fetchVars == <<cf_etag, cf_networks>>
readVars == <<policy, ca_etag, ca_description>>

NoPolicy == [fingerprint |-> 0, description |-> "", rules |-> <<>>]

Call(op, prio, cidrs, ok) == [op |-> op, priority |-> prio, cidrs |-> cidrs, ok |-> ok]

Init ==
  /\ pub \in [etag : Tags, cidrs : {List(v, n) : v \in Variants, n \in 0..MaxLen}]
  /\ storeDesc \in Markers
  /\ storeFp = 0
  /\ storeRules \in
       {InitialRules(n, lay[1], lay[2]) : n \in 0..MaxOldLen, lay \in Layouts}
  /\ pc = "idle"
  /\ exitCode = 0
  /\ cf_etag = ""
  /\ cf_networks = <<>>
  /\ policy = NoPolicy
  /\ ca_etag = 0
  /\ ca_description = ""
  /\ policy_rules_number = 0
  /\ rulesNeeded = 0
  /\ rulesCounter = 0
  /\ l = 0
  /\ r = 0
  /\ i = 0
  /\ calls = <<>>
  /\ compared = {}
  /\ panicked = FALSE
  /\ run = 0
  /\ startDesc = storeDesc
  /\ startRules = storeRules
  /\ prevOpFailed = FALSE
  /\ prevStamped = FALSE
  /\ httpStatus = 0
  /\ inflight = 0
  /\ extMods = 0
  /\ extModified = FALSE

\* a rule call of the run that failed
OpFailed ==
  \E k \in 1..Len(calls) :
    calls[k].op \in {"add", "patch", "remove"} /\ ~calls[k].ok

\* the run ended with the marker written
Stamped ==
  /\ pc = "done"
  /\ Len(calls) >= 1
  /\ calls[Len(calls)].op = "patchPolicy"
  /\ calls[Len(calls)].ok

\* the scheduler starts main(); the flags are checked first
Start ==
  /\ pc \in {"idle", "done"}
  /\ run < MaxRuns
  /\ run' = run + 1
  /\ prevOpFailed' = OpFailed
  /\ prevStamped' = (prevStamped \/ Stamped)
  /\ httpStatus' = 0
  /\ extModified' = FALSE
  /\ startDesc' = storeDesc
  /\ startRules' = storeRules
  /\ cf_etag' = ""
  /\ cf_networks' = <<>>
  /\ policy' = NoPolicy
  /\ ca_etag' = 0
  /\ ca_description' = ""
  /\ policy_rules_number' = 0
  /\ rulesNeeded' = 0
  /\ rulesCounter' = 0
  /\ l' = 0
  /\ r' = 0
  /\ i' = 0
  /\ calls' = <<>>
  /\ compared' = {}
  /\ panicked' = FALSE
  /\ \E flagsGiven \in BOOLEAN :
       IF flagsGiven
         THEN pc' = "fetch" /\ exitCode' = 0
         ELSE pc' = "done" /\ exitCode' = 1
  /\ inflight' = 0
  /\ UNCHANGED <<pub, storeVars, extMods>>

\* cloudflareparser.ParseCloudflareJSON() and the check of its error
Fetch ==
  /\ pc = "fetch"
  /\ \E neterr \in BOOLEAN, malformed \in BOOLEAN, status \in Statuses :
       LET res == ParseCloudflareJSON([neterr |-> neterr, status |-> status,
                                       malformed |-> malformed, body |-> pub])
       IN  /\ httpStatus' = IF neterr THEN 0 ELSE status
           /\ IF res.err
                THEN /\ exitCode' = 1
                     /\ pc' = "done"
                     /\ UNCHANGED fetchVars
                ELSE /\ cf_etag' = res.etag
                     /\ cf_networks' = res.cidrs
                     /\ pc' = "getPolicy"
                     /\ UNCHANGED exitCode
  /\ UNCHANGED <<pub, storeVars, readVars, planVars, l, r, i, calls, compared,
                 panicked, run, startDesc, startRules,
                 prevOpFailed>>
  /\ UNCHANGED <<prevStamped, inflight, extMods, extModified>>

\* gcp.GetCloudArmorPolicy, the change gate, and the counters of the plan
GetPolicy ==
  /\ pc = "getPolicy"
  /\ \E apiOk \in BOOLEAN :
       /\ calls' = Append(calls, Call("get", -1, <<>>, apiOk))
       /\ IF ~apiOk
            THEN /\ exitCode' = 1
                 /\ pc' = "done"
                 /\ UNCHANGED <<readVars, planVars>>
            ELSE /\ policy' = [fingerprint |-> storeFp, description |-> storeDesc,
                               rules |-> storeRules]
                 /\ ca_etag' = storeFp
                 /\ ca_description' = storeDesc
                 /\ IF SameETag(storeDesc, cf_etag)
                      THEN /\ exitCode' = 0
                           /\ pc' = "done"
                           /\ UNCHANGED planVars
                      ELSE /\ policy_rules_number' = CountManaged(storeRules)
                           /\ rulesNeeded' = RulesNeeded(Len(cf_networks))
                           /\ rulesCounter' =
                                RulesCounter(CountManaged(storeRules),
                                             RulesNeeded(Len(cf_networks)))
                           /\ pc' = "loop"
                           /\ UNCHANGED exitCode
  /\ UNCHANGED <<pub, storeVars, fetchVars, l, r, i, compared, panicked, run,
                 startDesc, startRules, prevOpFailed>>
  /\ UNCHANGED <<prevStamped, httpStatus, inflight, extMods, extModified>>

\* cf_networks[left:right] panics when the bounds are out of range
SlicePanics(networks, left, right) == left > right \/ right > Len(networks)

\* The comparison of the batch with the rule at the same index of
\* policy.Rules.  capOk says whether the backing array of the rule's
\* SrcIpRanges reaches r2 when the rule holds fewer than r2 ranges.
\*   "notread"  r # r2, the rule is not looked at
\*   "panic"    nil Config, or r2 beyond the capacity of SrcIpRanges
\*   "same"     DeepEqual is true
\*   "differs"  DeepEqual is false
CompareOutcome(rule, networks, left, right, capOk) ==
  IF right # R2(right) THEN "notread"
  ELSE IF ~rule.hasConfig THEN "panic"
  ELSE IF R2(right) > Len(rule.cidrs) /\ ~capOk THEN "panic"
  ELSE IF DeepEqual(GoSlice(networks, left, right),
                    GoSliceUpTo(rule.cidrs, R2(right)))
         THEN "same"
         ELSE "differs"

\* the end of one pass through a loop body: "l = +10", i++ and the loop test
Advance(bound) ==
  /\ l' = NextLeft(l)
  /\ i' = i + 1
  /\ pc' = IF i + 1 < bound THEN "loop" ELSE "reread"
  /\ UNCHANGED <<exitCode, panicked>>

\* an error branch that records the error and goes on to the marker update
FailIgnored ==
  /\ exitCode' = 1
  /\ pc' = "reread"
  /\ UNCHANGED <<l, i, panicked>>

\* exitCode = 1; return
Fail ==
  /\ exitCode' = 1
  /\ pc' = "done"
  /\ UNCHANGED <<l, i, panicked>>

\* a runtime panic: the deferred os.Exit(exitCode) runs with exitCode as it is
Panic ==
  /\ panicked' = TRUE
  /\ pc' = "done"
  /\ UNCHANGED <<l, i, exitCode>>

\* Case 1, one iteration: no CF rules in the policy yet
Case1Add ==
  /\ pc = "loop"
  /\ policy_rules_number = 0
  /\ i < rulesNeeded
  /\ r' = RightPointer(l, Len(cf_networks))
  /\ IF SlicePanics(cf_networks, l, r')
       THEN Panic /\ UNCHANGED <<storeVars, calls, inflight>>
       ELSE \E apiOk \in BOOLEAN :
            LET rule == FormRule(i, cf_networks, l, r')
                err == AddErr(storeRules, rule, apiOk)
            IN  /\ storeRules' = AddCloudArmorRule(storeRules, rule, apiOk)
                /\ storeFp' = IF err THEN storeFp ELSE storeFp + 1
                /\ calls' = Append(calls, Call("add", i, rule.cidrs, ~err))
                /\ inflight' = IF err THEN inflight ELSE WaitOp(IssueOp(inflight))
                /\ IF err THEN Fail ELSE Advance(rulesNeeded)
                /\ UNCHANGED storeDesc
  /\ UNCHANGED <<pub, fetchVars, readVars, planVars, compared, run, startDesc,
                 startRules, prevOpFailed>>
  /\ UNCHANGED <<prevStamped, httpStatus, extMods, extModified>>

\* Case 2, the policy has a rule of this index: compare, then patch or skip
Case2Patch ==
  /\ pc = "loop"
  /\ policy_rules_number # 0
  /\ i < rulesCounter
  /\ i < rulesNeeded /\ i < policy_rules_number
  /\ r' = RightPointer(l, Len(cf_networks))
  /\ \E capOk \in BOOLEAN, apiOk \in BOOLEAN :
       LET existing == policy.rules[i + 1]
           outcome ==
             IF SlicePanics(cf_networks, l, r') THEN "panic"
             ELSE CompareOutcome(existing, cf_networks, l, r', capOk)
           rule == FormRule(i, cf_networks, l, r')
           err == PatchErr(storeRules, i, apiOk)
       IN  /\ compared' =
                IF outcome = "notread" \/ SlicePanics(cf_networks, l, r')
                  THEN compared
                  ELSE compared \cup {[priority |-> existing.priority,
                                       description |-> existing.description]}
           /\ CASE outcome = "panic" ->
                     Panic /\ UNCHANGED <<storeVars, calls, inflight>>
                [] outcome = "same" ->
                     Advance(rulesCounter) /\ UNCHANGED <<storeVars, calls, inflight>>
                [] OTHER ->
                     /\ storeRules' = PatchCloudArmorRule(storeRules, i, rule, apiOk)
                     /\ storeFp' = IF err THEN storeFp ELSE storeFp + 1
                     /\ calls' = Append(calls, Call("patch", i, rule.cidrs, ~err))
                     /\ inflight' = IF err THEN inflight ELSE WaitOp(IssueOp(inflight))
                     /\ IF err THEN Fail ELSE Advance(rulesCounter)
                     /\ UNCHANGED storeDesc
  /\ UNCHANGED <<pub, fetchVars, readVars, planVars, run, startDesc, startRules,
                 prevOpFailed>>
  /\ UNCHANGED <<prevStamped, httpStatus, extMods, extModified>>

\* Case 2, the policy has fewer rules than the list needs: add
Case2Add ==
  /\ pc = "loop"
  /\ policy_rules_number # 0
  /\ i < rulesCounter
  /\ ~(i < rulesNeeded /\ i < policy_rules_number)
  /\ i < rulesNeeded /\ i >= policy_rules_number
  /\ r' = RightPointer(l, Len(cf_networks))
  /\ IF SlicePanics(cf_networks, l, r')
       THEN Panic /\ UNCHANGED <<storeVars, calls, inflight>>
       ELSE \E apiOk \in BOOLEAN :
            LET rule == FormRule(i, cf_networks, l, r')
                err == AddErr(storeRules, rule, apiOk)
            IN  /\ storeRules' = AddCloudArmorRule(storeRules, rule, apiOk)
                /\ storeFp' = IF err THEN storeFp ELSE storeFp + 1
                /\ calls' = Append(calls, Call("add", i, rule.cidrs, ~err))
                /\ inflight' = IF err THEN inflight ELSE WaitOp(IssueOp(inflight))
                /\ IF err THEN Fail ELSE Advance(rulesCounter)
                /\ UNCHANGED storeDesc
  /\ UNCHANGED <<pub, fetchVars, readVars, planVars, compared, run, startDesc,
                 startRules, prevOpFailed>>
  /\ UNCHANGED <<prevStamped, httpStatus, extMods, extModified>>

\* Case 2, the policy has excessive rules: remove
Case2Remove ==
  /\ pc = "loop"
  /\ policy_rules_number # 0
  /\ i < rulesCounter
  /\ ~(i < rulesNeeded /\ i < policy_rules_number)
  /\ ~(i < rulesNeeded /\ i >= policy_rules_number)
  /\ \E apiOk \in BOOLEAN :
       LET err == RemoveErr(storeRules, i, apiOk)
       IN  /\ storeRules' = RemoveCloudArmorRule(storeRules, i, apiOk)
           /\ storeFp' = IF err THEN storeFp ELSE storeFp + 1
           /\ calls' = Append(calls, Call("remove", i, <<>>, ~err))
           /\ inflight' = IF err THEN inflight ELSE WaitOp(IssueOp(inflight))
           /\ IF err THEN Fail ELSE Advance(rulesCounter)
           /\ UNCHANGED storeDesc
  /\ UNCHANGED <<pub, fetchVars, readVars, planVars, r, compared, run, startDesc,
                 startRules, prevOpFailed>>
  /\ UNCHANGED <<prevStamped, httpStatus, extMods, extModified>>

\* a second read whose fingerprint is not taken over: ca_etag stays the one
\* of the first read
RereadKeepsFingerprint ==
  /\ pc = "reread"
  /\ \E apiOk \in BOOLEAN :
       /\ calls' = Append(calls, Call("get", -1, <<>>, apiOk))
       /\ IF ~apiOk
            THEN /\ exitCode' = 1
                 /\ pc' = "done"
                 /\ UNCHANGED readVars
            ELSE /\ policy' = [fingerprint |-> storeFp, description |-> storeDesc,
                               rules |-> storeRules]
                 /\ pc' = "stamp"
                 /\ UNCHANGED <<exitCode, ca_etag, ca_description>>
  /\ UNCHANGED <<pub, storeVars, fetchVars, planVars, l, r, i, compared, panicked,
                 run, startDesc, startRules, prevOpFailed>>
  /\ UNCHANGED <<prevStamped, httpStatus, inflight, extMods, extModified>>

\* the second gcp.GetCloudArmorPolicy: the fingerprint after all operations
Reread ==
  /\ pc = "reread"
  /\ \E apiOk \in BOOLEAN :
       /\ calls' = Append(calls, Call("get", -1, <<>>, apiOk))
       /\ IF ~apiOk
            THEN /\ exitCode' = 1
                 /\ pc' = "done"
                 /\ UNCHANGED readVars
            ELSE /\ policy' = [fingerprint |-> storeFp, description |-> storeDesc,
                               rules |-> storeRules]
                 /\ ca_etag' = storeFp
                 /\ pc' = "stamp"
                 /\ UNCHANGED <<exitCode, ca_description>>
  /\ UNCHANGED <<pub, storeVars, fetchVars, planVars, l, r, i, compared, panicked,
                 run, startDesc, startRules, prevOpFailed>>
  /\ UNCHANGED <<prevStamped, httpStatus, inflight, extMods, extModified>>

\* a marker write that is sent again with the store's current fingerprint
\* when the one read before is stale
StampWithFreshFingerprint ==
  /\ pc = "stamp"
  /\ \E apiOk \in BOOLEAN :
       LET err == PatchPolicyErr(storeFp, storeFp, apiOk)
       IN  /\ calls' = Append(calls, Call("patchPolicy", -1, <<>>, ~err))
           /\ inflight' = IF err THEN inflight ELSE WaitOp(IssueOp(inflight))
           /\ storeDesc' = IF err THEN storeDesc ELSE cf_etag
           /\ storeFp' = IF err THEN storeFp ELSE storeFp + 1
           /\ exitCode' = IF err THEN 1 ELSE exitCode
           /\ pc' = "done"
  /\ policy' = [fingerprint |-> ca_etag, description |-> cf_etag, rules |-> <<>>]
  /\ UNCHANGED <<pub, storeRules, fetchVars, ca_etag, ca_description, planVars,
                 l, r, i, compared, panicked, run, startDesc, startRules,
                 prevOpFailed>>
  /\ UNCHANGED <<prevStamped, httpStatus, extMods, extModified>>

\* a marker write that sends the description read from the policy
StampOldDescription ==
  /\ pc = "stamp"
  /\ \E apiOk \in BOOLEAN :
       LET err == PatchPolicyErr(storeFp, ca_etag, apiOk)
       IN  /\ calls' = Append(calls, Call("patchPolicy", -1, <<>>, ~err))
           /\ inflight' = IF err THEN inflight ELSE WaitOp(IssueOp(inflight))
           /\ storeDesc' = IF err THEN storeDesc ELSE ca_description
           /\ storeFp' = IF err THEN storeFp ELSE storeFp + 1
           /\ exitCode' = IF err THEN 1 ELSE exitCode
           /\ pc' = "done"
  /\ policy' = [fingerprint |-> ca_etag, description |-> ca_description,
                rules |-> <<>>]
  /\ UNCHANGED <<pub, storeRules, fetchVars, ca_etag, ca_description, planVars,
                 l, r, i, compared, panicked, run, startDesc, startRules,
                 prevOpFailed>>
  /\ UNCHANGED <<prevStamped, httpStatus, extMods, extModified>>

\* gcp.PatchCloudArmorPolicy with Description = cf_etag, Fingerprint = ca_etag
Stamp ==
  /\ pc = "stamp"
  /\ \E apiOk \in BOOLEAN :
       LET err == PatchPolicyErr(storeFp, ca_etag, apiOk)
       IN  /\ calls' = Append(calls, Call("patchPolicy", -1, <<>>, ~err))
           /\ inflight' = IF err THEN inflight ELSE WaitOp(IssueOp(inflight))
           /\ storeDesc' = IF err THEN storeDesc ELSE cf_etag
           /\ storeFp' = IF err THEN storeFp ELSE storeFp + 1
           /\ exitCode' = IF err THEN 1 ELSE exitCode
           /\ pc' = "done"
  /\ policy' = [fingerprint |-> ca_etag, description |-> cf_etag, rules |-> <<>>]
  /\ UNCHANGED <<pub, storeRules, fetchVars, ca_etag, ca_description, planVars,
                 l, r, i, compared, panicked, run, startDesc, startRules,
                 prevOpFailed>>
  /\ UNCHANGED <<prevStamped, httpStatus, extMods, extModified>>

\* somebody else changes the policy after the run has re-read it and before
\* the run writes the marker: the store's fingerprint moves on
ExternalModify ==
  /\ pc = "stamp"
  /\ extMods < MaxExternal
  /\ extMods' = extMods + 1
  /\ extModified' = TRUE
  /\ storeFp' = storeFp + 1
  /\ UNCHANGED <<pub, storeDesc, storeRules, pc, exitCode, fetchVars, readVars,
                 planVars, l, r, i, calls, compared, panicked, run, startDesc,
                 startRules, prevOpFailed, prevStamped, httpStatus, inflight>>

Next ==
  \/ Start
  \/ Fetch
  \/ GetPolicy
  \/ Case1Add
  \/ Case2Patch
  \/ Case2Add
  \/ Case2Remove
  \/ Reread
  \/ Stamp
  \/ ExternalModify

Spec == Init /\ [][Next]_vars

\* one step of main() between its start and its exit
RunStep ==
  \/ Fetch
  \/ GetPolicy
  \/ Case1Add
  \/ Case2Patch
  \/ Case2Add
  \/ Case2Remove
  \/ Reread
  \/ Stamp

\* every external call returns, so a started main() takes its next step; the
\* scheduler and the other users of the policy are under no obligation
FairSpec == Spec /\ WF_vars(RunStep)

\* ------------------------------------------------------------ properties
\* the managed rules of a policy, in ascending priority order
ManagedOf(rules) == SelectSeq(rules, LAMBDA x : x.description = rule_description)
ManagedCidrs(rules) == [k \in 1..Len(ManagedOf(rules)) |-> ManagedOf(rules)[k].cidrs]
ManagedPriorities(rules) ==
  {rules[k].priority : k \in {n \in 1..Len(rules) : rules[n].description = rule_description}}

\* the managed rules sit at priorities 0..k-1
ContiguousLayout(rules) ==
  ManagedPriorities(rules) = 0..(Len(ManagedOf(rules)) - 1)

RuleOps == {"add", "patch", "remove"}
RuleCalls == {k \in 1..Len(calls) : calls[k].op \in RuleOps}
WriteCalls == {k \in 1..Len(calls) : calls[k].op \in {"add", "patch"}}

\* the run passed the change gate
PassedGate ==
  /\ Len(calls) >= 1
  /\ calls[1].ok
  /\ ~SameETag(ca_description, cf_etag)

\* the run ended after a successful marker update
RunSucceeded ==
  /\ pc = "done"
  /\ Len(calls) >= 1
  /\ calls[Len(calls)].op = "patchPolicy"
  /\ calls[Len(calls)].ok

\* C1: after a run that passed the gate and succeeded, starting from managed
\* rules at priorities 0..k-1, the managed rules in priority order are
\* exactly the consecutive 10-element batches of the fetched list.
C1_ManagedRulesAreBatches ==
  (RunSucceeded /\ ContiguousLayout(startRules))
    => /\ ManagedCidrs(storeRules) = Batches(cf_networks)
       /\ ContiguousLayout(storeRules)

\* C2: when the description read from the store equals the fetched tag
\* exactly, the run ends with exit code 0 after the one read and no mutation
\* call; when they differ (in any character) the run goes on into the rule
\* loop: it ends only after a further store call or a panic.
C2_ChangeGate ==
  (Len(calls) >= 1 /\ calls[1].ok)
    => /\ (ca_description = cf_etag)
            => (pc = "done" /\ exitCode = 0 /\ Len(calls) = 1)
       /\ (ca_description # cf_etag /\ pc = "done")
            => (Len(calls) >= 2 \/ panicked)

\* C2 witness: a run that stopped at the gate on equal tags
C2_Witness ==
  /\ pc = "done"
  /\ Len(calls) = 1 /\ calls[1].ok
  /\ ca_description = "v1" /\ cf_etag = "v1"
  /\ exitCode = 0
  /\ ManagedCidrs(storeRules) # Batches(cf_networks)

\* C3: the cidrs of the Add or Patch issued for priority i are
\* entries[i*10 : min((i+1)*10, len(entries))].
C3_Coverage ==
  \A k \in WriteCalls :
    /\ calls[k].priority + 1 \in 1..Len(Batches(cf_networks))
    /\ calls[k].cidrs = Batches(cf_networks)[calls[k].priority + 1]

\* C4: a run that passes the gate while the managed rules already equal the
\* batched list issues no add-rule, patch-rule or remove-rule call.
C4_NoOpOnEqualState ==
  (/\ PassedGate
   /\ ContiguousLayout(startRules)
   /\ ManagedCidrs(startRules) = Batches(cf_networks))
    => RuleCalls = {}

\* C5: a slot is passed over without a Patch only if the existing rule holds
\* exactly the ranges of the new slice, same length and same order.
C5_SkipOnlyIfEqual ==
  [][(/\ pc = "loop"
      /\ pc' \in {"loop", "reread"}
      /\ calls' = calls)
       => policy.rules[i + 1].cidrs = GoSlice(cf_networks, l, r')]_vars

\* C6: a run compares only managed rules, counts only managed rules, and
\* sends no patch-rule or remove-rule to a priority an unmanaged rule holds.
C6_UnmanagedUntouched ==
  /\ \A c \in compared : c.description = rule_description
  /\ pc = "loop" => policy_rules_number = Len(ManagedOf(policy.rules))
  /\ \A k \in 1..Len(calls) :
       calls[k].op \in {"patch", "remove"}
         => ~\E n \in 1..Len(startRules) :
               /\ startRules[n].priority = calls[k].priority
               /\ startRules[n].description # rule_description

\* C7: after a run whose operations all succeeded, the managed rules hold
\* exactly the priorities 0..neededBatches-1.
C7_PriorityContiguity ==
  RunSucceeded
    => ManagedPriorities(storeRules) = 0..(NeededFor(Len(cf_networks)) - 1)

\* C8: every add-rule and patch-rule call carries at most 10 CIDRs.
C8_BatchInvariant ==
  \A k \in WriteCalls : Len(calls[k].cidrs) <= BatchSize

\* C8 witness: a run on the longest list that wrote three rules, the ones at
\* priorities 1 and 2 holding a full batch
C8_Witness ==
  /\ Len(cf_networks) > 2 * BatchSize
  /\ Cardinality(WriteCalls) = 3
  /\ \A k \in WriteCalls : calls[k].ok
  /\ \E k \in WriteCalls :
       calls[k].priority = 2 /\ Len(calls[k].cidrs) = BatchSize

\* C9: a failed add-rule, patch-rule or remove-rule call is the last call of
\* its run: the run is over with a non-zero exit code and the policy
\* description is the one the run started with.
C9_FailFast ==
  \A k \in RuleCalls :
    ~calls[k].ok
      => /\ k = Len(calls)
         /\ pc = "done"
         /\ exitCode # 0
         /\ storeDesc = startDesc

\* C9 witness: a run stopped by the failure of its third rule call, with the
\* first two applied and the marker still different from the fetched tag
C9_Witness ==
  /\ pc = "done"
  /\ Len(calls) = 4
  /\ calls[2].ok /\ calls[3].ok /\ ~calls[4].ok
  /\ calls[4].op \in RuleOps
  /\ storeRules # startRules
  /\ storeDesc = startDesc /\ storeDesc # cf_etag
  /\ exitCode = 1

\* C10: when the run after an aborted one, on the same published list, has
\* all its calls succeed, the managed rules are the batched list at
\* priorities 0..neededBatches-1 and the marker is the fetched tag.
C10_RecoveryAfterAbort ==
  (prevOpFailed /\ RunSucceeded /\ ContiguousLayout(startRules))
    => /\ ManagedCidrs(storeRules) = Batches(pub.cidrs)
       /\ ManagedPriorities(storeRules) = 0..(NeededFor(Len(pub.cidrs)) - 1)
       /\ storeDesc = pub.etag

\* C11: a document with an empty version tag or an empty IPv4 list, or one
\* that cannot be retrieved or parsed, ends the run with a non-zero exit code
\* and without any call to the policy store; every store call is made with a
\* non-empty tag and a non-empty list in hand.
C11_InputValidation ==
  /\ (pub.etag = "" \/ Len(pub.cidrs) = 0) => (calls = <<>> /\ cf_etag = "")
  /\ (pc = "done" /\ cf_etag = "") => (exitCode # 0 /\ calls = <<>>)
  /\ Len(calls) >= 1 => (cf_etag # "" /\ Len(cf_networks) >= 1)
  /\ (pub.etag = "" \/ Len(pub.cidrs) = 0)
       => (storeDesc = startDesc /\ storeRules = startRules)

\* C11 witness: the publisher answered 200 with an empty tag while the
\* policy's description is empty too, and the run is over
C11_Witness ==
  /\ pc = "done"
  /\ httpStatus = 200
  /\ pub.etag = "" /\ Len(pub.cidrs) >= 1
  /\ storeDesc = ""
  /\ exitCode = 1
  /\ calls = <<>>

\* C12: when the publisher answers with a status outside 200..299 the run is
\* over with a non-zero exit code and has made no call to the policy store.
C12_Non2xxRejected ==
  (httpStatus # 0 /\ httpStatus \notin 200..299)
    => (pc = "done" /\ exitCode # 0 /\ calls = <<>>)

\* the run stopped at the change gate
StoppedAtGate ==
  /\ pc = "done"
  /\ Len(calls) = 1 /\ calls[1].ok
  /\ SameETag(ca_description, cf_etag)

\* C13: a run that is over has exit code 0 only if it stopped at the change
\* gate or completed every rule operation and the marker update; a run
\* started without the identifiers is over with a non-zero code before any
\* call.
C13_ExitStatus ==
  /\ (pc = "done" /\ run >= 1 /\ exitCode = 0) => (StoppedAtGate \/ Stamped)
  /\ (pc = "done" /\ httpStatus = 0 /\ calls = <<>>) => exitCode # 0

\* C14: the rule calls of a run go to strictly ascending priorities below
\* max(needed, existing); the call for priority p is a patch when
\* p < min(needed, existing), an add when existing <= p < needed, a remove
\* when needed <= p < existing; only a slot below min(needed, existing) may
\* be passed without a call; no run holds both an add and a remove; and the
\* loop ends at i = max(needed, existing).
C14_SlotClassification ==
  LET N == rulesNeeded
      P == policy_rules_number
  IN  /\ \A k \in RuleCalls :
           LET q == calls[k].priority
           IN  /\ q \in 0..(Max(N, P) - 1)
               /\ q <= i
               /\ (q < Min(N, P)) <=> (calls[k].op = "patch")
               /\ (P <= q /\ q < N) <=> (calls[k].op = "add")
               /\ (N <= q /\ q < P) <=> (calls[k].op = "remove")
      /\ \A j, k \in RuleCalls : j < k => calls[j].priority < calls[k].priority
      /\ \A q \in 0..(i - 1) :
           q >= Min(N, P) => \E k \in RuleCalls : calls[k].priority = q /\ calls[k].ok
      /\ ~(\E j, k \in RuleCalls : calls[j].op = "add" /\ calls[k].op = "remove")
      /\ pc \in {"reread", "stamp"} => i = Max(N, P)
      /\ pc = "loop" => i < Max(N, P)

\* C14 witness: three managed rules of 10, 10 and 3 ranges and a list of the
\* first 15: rule 0 is passed, rule 1 is patched with the next 5, rule 2 is
\* removed, and the marker is written
C14_Witness ==
  /\ Stamped
  /\ Len(cf_networks) = 15
  /\ Len(ManagedOf(startRules)) = 3
  /\ Len(calls) = 5
  /\ calls[2] = Call("patch", 1, <<11, 12, 13, 14, 15>>, TRUE)
  /\ calls[3] = Call("remove", 2, <<>>, TRUE)

PolicyWrites == {k \in 1..Len(calls) : calls[k].op = "patchPolicy"}

\* the marker write, if any, is the last call of the run and the only one of
\* its kind, follows a successful read that follows every rule call, and all
\* rule calls before it succeeded; a failed re-read ends the run
MarkerWrittenLast ==
  /\ Cardinality(PolicyWrites) <= 1
  /\ \A k \in PolicyWrites :
       /\ k = Len(calls)
       /\ k >= 2
       /\ calls[k - 1].op = "get" /\ calls[k - 1].ok
       /\ \A j \in RuleCalls : calls[j].ok
       /\ ~panicked
       /\ calls[k].ok => storeDesc = cf_etag
  /\ (Len(calls) >= 2 /\ calls[Len(calls)].op = "get" /\ ~calls[Len(calls)].ok)
       => (pc = "done" /\ exitCode # 0)

\* the request of the marker write carries the fetched tag and the
\* fingerprint of the policy as the re-read returned it
MarkerRequest ==
  (pc = "stamp" /\ pc' = "done")
    => /\ policy'.fingerprint = policy.fingerprint
       /\ policy'.description = cf_etag
       /\ storeDesc' \in {storeDesc, cf_etag}
       /\ storeRules' = storeRules

\* C15: the policy description is written at most once in a run, after every
\* rule operation has succeeded, with the fetched tag as value and with the
\* fingerprint of a read made after the last rule mutation; when that read
\* fails no marker write is attempted.
C15_MarkerStampingOrder == []MarkerWrittenLast /\ [][MarkerRequest]_vars

\* C15 witness: a run that changed two rules, re-read the policy and wrote
\* the marker with the fingerprint of the re-read
C15_Witness ==
  /\ Stamped
  /\ Len(calls) = 5
  /\ calls[2].op \in RuleOps /\ calls[3].op \in RuleOps
  /\ policy.fingerprint = 2
  /\ ca_etag = 2
  /\ storeDesc = "v1" /\ startDesc # "v1"

\* the rule calls of the run that succeeded are in place in the store
AppliedRulesInPlace ==
  \A k \in RuleCalls :
    calls[k].ok =>
      IF calls[k].op = "remove"
        THEN ~HasPriority(storeRules, calls[k].priority)
        ELSE \E n \in 1..Len(storeRules) :
               storeRules[n] = ManagedRule(calls[k].priority, calls[k].cidrs)

\* C16: when the policy is changed by somebody else between the re-read and
\* the marker write, the one marker write of the run is rejected, the run is
\* over with a non-zero exit code, the description is the one the run started
\* with and differs from the published tag (so the next run passes the gate),
\* and the rule changes the run made are in place.
C16_StampConflict ==
  (extModified /\ pc = "done")
    => /\ Cardinality(PolicyWrites) = 1
       /\ calls[Len(calls)].op = "patchPolicy"
       /\ ~calls[Len(calls)].ok
       /\ exitCode # 0
       /\ storeDesc = startDesc
       /\ ~SameETag(storeDesc, pub.etag)
       /\ AppliedRulesInPlace

\* C16 witness: a run that patched a rule, had the policy changed under it
\* and lost the marker write
C16_Witness ==
  /\ extModified
  /\ pc = "done"
  /\ \E k \in RuleCalls : calls[k].ok
  /\ storeRules # startRules
  /\ calls[Len(calls)] = Call("patchPolicy", -1, <<>>, FALSE)
  /\ ca_etag # storeFp
  /\ exitCode = 1

\* C17: between two steps of a run no store operation is running, so a call
\* is started with none outstanding and at most one is outstanding while a
\* wrapper waits.
C17_SequentialMutations ==
  /\ inflight = 0
  /\ IssueOp(inflight) <= 1

\* C17 witness: a run that made three rule calls and the marker write, one
\* after the other
C17_Witness ==
  /\ Stamped
  /\ Cardinality(RuleCalls) = 3
  /\ \A k \in RuleCalls : calls[k].ok
  /\ inflight = 0

\* the slice the source's window gives every slot after the first
SecondWindow(networks) ==
  GoSlice(networks, BatchSize, Min(2 * BatchSize, Len(networks)))

\* C18 as stated: every Add or Patch at a slot i >= 1 carries a slice that
\* is not entries[i*10 : min((i+1)*10, len(entries))].
C18_EveryLaterBatchWrong ==
  \A k \in WriteCalls :
    calls[k].priority >= 1
      => calls[k].cidrs # Batches(cf_networks)[calls[k].priority + 1]

\* C18 amended: the Add or Patch at slot 0 and at slot 1 carries the correct
\* slice; every Add or Patch at a slot i >= 2 carries entries[10:20], which is
\* not the slice of its slot.
C18_LaterBatchesRepeatSecond ==
  \A k \in WriteCalls :
    LET q == calls[k].priority
    IN  /\ q <= 1 => calls[k].cidrs = Batches(cf_networks)[q + 1]
        /\ q >= 2 => /\ calls[k].cidrs = SecondWindow(cf_networks)
                     /\ calls[k].cidrs # Batches(cf_networks)[q + 1]

\* C18 witness: a run that wrote slot 1 with entries[10:20] and slot 2 with
\* the same ranges
C18_Witness ==
  \E j, k \in WriteCalls :
    /\ calls[j].priority = 1 /\ calls[k].priority = 2
    /\ calls[j].ok /\ calls[k].ok
    /\ calls[j].cidrs = calls[k].cidrs
    /\ calls[j].cidrs = Batches(cf_networks)[2]

\* C19 as stated: every run that fetched the published tag after an earlier
\* run wrote the marker is over with exit code 0 and without a rule call or
\* marker write.
C19_EveryLaterRunExitsZero ==
  (prevStamped /\ cf_etag # "" /\ pc = "done")
    => /\ exitCode = 0
       /\ \A k \in 1..Len(calls) : calls[k].op = "get"

\* C19 amended: in every run after one that wrote the marker, with the same
\* published tag, the policy read is the only store call and the rules are
\* left as they were; when that read succeeds the run is over at the gate
\* with exit code 0.
C19_SteadyState ==
  prevStamped
    => /\ storeDesc = pub.etag
       /\ storeRules = startRules
       /\ \A k \in 1..Len(calls) : calls[k].op = "get" /\ k = 1
       /\ (Len(calls) = 1 /\ calls[1].ok) => (pc = "done" /\ exitCode = 0)

\* C19 witness: the second run stopped at the gate although the first left
\* managed rules that are not the batches of the list
C19_Witness ==
  /\ prevStamped
  /\ StoppedAtGate
  /\ exitCode = 0
  /\ ManagedCidrs(storeRules) # Batches(cf_networks)

\* C20: every add-rule and patch-rule call carries at least one CIDR.
C20_NonEmptyWrites ==
  \A k \in WriteCalls : Len(calls[k].cidrs) >= 1

\* C20 witness: a list of 11 whose second rule is written with the one
\* remaining range
C20_Witness ==
  /\ Len(cf_networks) = BatchSize + 1
  /\ \E k \in WriteCalls :
       calls[k].ok /\ calls[k].priority = 1 /\ Len(calls[k].cidrs) = 1
  /\ pc = "done"

\* the calls of the run that read the policy
PolicyReads == {k \in 1..Len(calls) : calls[k].op = "get"}

\* ceil(len / 10)
CeilBatches(len) ==
  IF len % BatchSize = 0 THEN len \div BatchSize ELSE len \div BatchSize + 1

\* the numbers of calls a run may make
CallBounds ==
  /\ Cardinality(RuleCalls)
       <= Max(Len(ManagedOf(startRules)), CeilBatches(Len(cf_networks)))
  /\ Cardinality(PolicyReads) <= 2
  /\ Cardinality(PolicyWrites) <= 1

\* C21: when every external call returns, a started run comes to its end,
\* and at no time has it made more than max(existing managed rules,
\* ceil(len(entries)/10)) rule calls, two policy reads and one marker write.
C21_Termination ==
  /\ []CallBounds
  /\ (pc \notin {"idle", "done"}) ~> (pc = "done")

\* C21 witness: a run that is over after as many rule calls as the bound
\* allows, two policy reads and the marker write
C21_Witness ==
  /\ pc = "done"
  /\ Cardinality(RuleCalls)
       = Max(Len(ManagedOf(startRules)), CeilBatches(Len(cf_networks)))
  /\ Cardinality(RuleCalls) >= 3
  /\ Cardinality(PolicyReads) = 2
  /\ Cardinality(PolicyWrites) = 1

====
